---- MODULE Spec2Model ----
(***************************************************************************)
(* Contemplative Science Digest: the item identity, the deduplication      *)
(* store (filters/deduplication.py), the relevance filter                  *)
(* (filters/relevance.py) and the run_digest pipeline (main.py).           *)
(*                                                                         *)
(* Time is counted in whole days: a datetime is an integer, timedelta(days *)
(* = d) is d.  Texts that the relevance filter reads are sequences of      *)
(* one-character strings; opaque strings (urls, dois) are TLA+ strings.    *)
(***************************************************************************)
EXTENDS Integers, Sequences, FiniteSets, TLC

\* ------------------------------------------------------------------ bounds
\* longest list of items handed to one call of the store
MaxLen == 2
\* how many times the clock advances by one day in a behaviour
MaxTicks == 1
\* how many entries the seen-items file holds before the first run
MaxFileEntries == 1
\* how many items the sources return to one run, papers and articles together
MaxFeed == 2
\* how many authors the author file holds before the first run
MaxTracked == 1
\* how many co-authors one get_author_coauthors call returns
MaxCoauthors == 1

\* --------------------------------------------------------------- constants
ARCHIVE_DAYS == 90
RSS_KEYWORD_THRESHOLD == 1
COAUTHOR_MIN_PAPERS == 3

\* Python's None, and None where a text (a sequence of characters) can be
None == "None"
NoText == <<None>>

\* ------------------------------------------------------------------- items
TitleZen == <<"Z", "e", "n">>
TitleCitizen == <<"c", "i", "t", "i", "z", "e", "n">>
Titles == {TitleZen, TitleCitizen}
URLs == {"A", "B"}
DOIs == {None, "X"}
\* the members of the enums ItemType and SourceType, each with its tag
ItemType(tag) == [enum |-> "ItemType", value |-> tag]
SourceType(tag) == [enum |-> "SourceType", value |-> tag]
PAPER == ItemType("paper")
ARTICLE == ItemType("article")
SEMANTIC_SCHOLAR == SourceType("semantic_scholar")
PUBMED == SourceType("pubmed")
RSS == SourceType("rss")
ItemTypes == {PAPER, ARTICLE}
SourceTypes == {SEMANTIC_SCHOLAR, PUBMED, RSS}

\* an Optional[datetime]: a datetime of day n without tzinfo (utcnow(),
\* strptime, datetime(...)) or with it (parsedate_to_datetime of a date
\* with a zone), or None
Naive(n) == [k |-> "naive", n |-> n]
Aware(n) == [k |-> "aware", n |-> n]
NoDate == [k |-> "none", n |-> 0]
\* the first utcnow() of a behaviour
Now0 == ARCHIVE_DAYS + 1

\* Author(name, author_id, affiliation)
Author(name, author_id, affiliation) ==
    [cls |-> "Author", name |-> name, author_id |-> author_id,
     affiliation |-> affiliation]

\* DigestItem(title, url, item_type, doi), the other fields at the values
\* the dataclass and the sources give them
DigestItem(title, url, item_type, doi) ==
    [title |-> title, url |-> url, item_type |-> item_type,
     source_type |-> IF item_type = PAPER THEN SEMANTIC_SCHOLAR ELSE RSS,
     date_published |-> NoDate, date_fetched |-> Naive(Now0),
     doi |-> doi, authors |-> <<>>, abstract |-> NoText,
     journal |-> None, year |-> None, source_name |-> None, excerpt |-> NoText,
     relevance_score |-> 0, matched_keywords |-> <<>>]

\* the title of the page at a url
TitleAt(u) == IF u = "A" THEN TitleZen ELSE TitleCitizen
\* what the paper sources build: the page's title, a DOI when the upstream
\* record has one
Papers == {DigestItem(TitleAt(u), u, PAPER, d) : u \in URLs, d \in DOIs}
\* what the feed parser builds: the entry's title, never a DOI
Articles == {DigestItem(t, u, ARTICLE, None) : t \in Titles, u \in URLs}
Items == Papers \cup Articles

\* Python truthiness of an Optional[str]
Truthy(s) == s # None /\ s # ""

get_unique_id_url_first(item) ==
    IF Truthy(item.url) THEN "url:" \o item.url ELSE "doi:" \o item.doi

get_unique_id(item) ==
    IF Truthy(item.doi) THEN "doi:" \o item.doi ELSE "url:" \o item.url

\* sequences over S of length at most n
SeqUpTo(S, n) == UNION {[1..k -> S] : k \in 0..n}

\* -------------------------------------------------------- RelevanceFilter
\* RSS_FILTER_KEYWORDS, as texts
RSS_FILTER_KEYWORDS ==
    << <<"m","e","d","i","t","a","t","i","o","n">>,
       <<"m","i","n","d","f","u","l","n","e","s","s">>,
       <<"c","o","n","t","e","m","p","l","a","t","i","v","e">>,
       <<"c","o","n","s","c","i","o","u","s","n","e","s","s">>,
       <<"a","w","a","r","e","n","e","s","s">>,
       <<"b","u","d","d","h","i","s","t">>,
       <<"b","u","d","d","h","i","s","m">>,
       <<"z","e","n">>,
       <<"y","o","g","a">>,
       <<"i","n","t","r","o","s","p","e","c","t","i","o","n">>,
       <<"a","t","t","e","n","t","i","o","n">>,
       <<"s","e","l","f","-","a","w","a","r","e","n","e","s","s">>,
       <<"n","e","u","r","o","s","c","i","e","n","c","e"," ","m","i","n","d">>,
       <<"b","r","a","i","n"," ","c","o","n","s","c","i","o","u","s","n","e","s","s">>,
       <<"p","s","y","c","h","e","d","e","l","i","c","s">>,
       <<"m","y","s","t","i","c","a","l">>,
       <<"s","p","i","r","i","t","u","a","l">> >>

UpperCase ==
    <<"A","B","C","D","E","F","G","H","I","J","K","L","M",
      "N","O","P","Q","R","S","T","U","V","W","X","Y","Z">>
LowerCase ==
    <<"a","b","c","d","e","f","g","h","i","j","k","l","m",
      "n","o","p","q","r","s","t","u","v","w","x","y","z">>
Range(f) == {f[i] : i \in DOMAIN f}

\* str.lower(), of one character and of a text
LowerOf ==
    [c \in Range(UpperCase) |-> LowerCase[CHOOSE i \in DOMAIN UpperCase : UpperCase[i] = c]]
LowerChar(c) == IF c \in DOMAIN LowerOf THEN LowerOf[c] ELSE c
Lower(text) == [i \in DOMAIN text |-> LowerChar(text[i])]

\* the characters the regex class \w matches
WordChars ==
    Range(UpperCase) \cup Range(LowerCase)
        \cup {"0","1","2","3","4","5","6","7","8","9","_"}
IsWordChar(c) == c \in WordChars

\* the regex assertion \b between text[i] and text[i+1] (i in 0..Len(text))
WordBoundary(text, i) ==
    (i >= 1 /\ IsWordChar(text[i])) # (i < Len(text) /\ IsWordChar(text[i + 1]))

\* re.compile(re.escape(kw), re.IGNORECASE).search(text): no word boundaries
PatternSearch_substring(kw, text) ==
    \E i \in 0..(Len(text) - Len(kw)) :
        \A j \in 1..Len(kw) : LowerChar(text[i + j]) = LowerChar(kw[j])

\* re.compile(r"\b" + re.escape(kw) + r"\b", re.IGNORECASE).search(text)
PatternSearch(kw, text) ==
    \E i \in 0..(Len(text) - Len(kw)) :
        /\ WordBoundary(text, i)
        /\ \A j \in 1..Len(kw) : LowerChar(text[i + j]) = LowerChar(kw[j])
        /\ WordBoundary(text, i + Len(kw))

\* " ".join(parts) of the parts that are truthy
RECURSIVE JoinParts(_)
JoinParts(parts) ==
    IF parts = <<>> THEN <<>>
    ELSE IF Len(parts) = 1 THEN Head(parts)
    ELSE Head(parts) \o <<" ">> \o JoinParts(Tail(parts))

TextParts(item) ==
    SelectSeq(<<item.title, item.excerpt, item.abstract>>,
              LAMBDA x : x # NoText /\ x # <<>>)

\* RelevanceFilter(keywords, threshold): the lowercased keywords, the
\* patterns compiled from the keywords as given, the threshold
RelevanceFilter(keywords, threshold) ==
    [keywords |-> [i \in DOMAIN keywords |-> Lower(keywords[i])],
     patterns |-> keywords,
     threshold |-> threshold]

\* the elements of a sequence at the indices satisfying Test, in order
RECURSIVE SelectIndices(_, _, _)
SelectIndices(seq, Test(_), i) ==
    IF i > Len(seq) THEN <<>>
    ELSE (IF Test(i) THEN <<seq[i]>> ELSE <<>>) \o SelectIndices(seq, Test, i + 1)

\* self.calculate_relevance(item): [score, matched]
calculate_relevance_of(self, item) ==
    LET text == Lower(JoinParts(TextParts(item)))
        Hit(i) == PatternSearch(self.patterns[i], text)
        matched == SelectIndices(self.keywords, Hit, 1)
    IN [score |-> Len(matched), matched |-> matched]

\* the item with the relevance_score and matched_keywords self computes
ScoredBy(self, item) ==
    [item EXCEPT !.relevance_score = calculate_relevance_of(self, item).score,
                 !.matched_keywords = calculate_relevance_of(self, item).matched]

\* filter_relevant appending every item, whatever its score
filter_relevant_keeps_all(self, items) ==
    [i \in DOMAIN items |-> ScoredBy(self, items[i])]

\* self.filter_relevant(items)
filter_relevant_of(self, items) ==
    LET kept == SelectSeq(items,
                    LAMBDA x : calculate_relevance_of(self, x).score >= self.threshold)
    IN [i \in DOMAIN kept |-> ScoredBy(self, kept[i])]

\* RelevanceFilter(), as run_digest builds it
DefaultFilter == RelevanceFilter(RSS_FILTER_KEYWORDS, RSS_KEYWORD_THRESHOLD)

\* calculate_relevance of the default filter: [score, matched]
calculate_relevance(item) == calculate_relevance_of(DefaultFilter, item)

\* the item filter_relevant appends: relevance_score and matched_keywords set
Scored(item) == ScoredBy(DefaultFilter, item)

filter_relevant(items) == filter_relevant_of(DefaultFilter, items)

\* ------------------------------------------------- the seen-items mapping
\* A JSON value found under "first_seen": an ISO-8601 text of day n without
\* a UTC offset (what isoformat() of utcnow() writes) or with one, another
\* text (n = 0: the empty text, n = 1: a text that is no timestamp), a number,
\* or nothing (the key is absent).
IsoStr(n) == [k |-> "iso", n |-> n]
IsoTzStr(n) == [k |-> "iso_tz", n |-> n]
EmptyStr == [k |-> "str", n |-> 0]
GarbageStr == [k |-> "str", n |-> 1]
NumberVal == [k |-> "num", n |-> 1]
Absent == [k |-> "absent", n |-> 0]

\* datetime.isoformat()
isoformat(t) == IsoStr(t)

\* a history entry: a JSON object {"title", "first_seen"}, or (in a file
\* written by something else) a JSON value that is no object
Entry(title, fs) == [shape |-> "object", title |-> title, first_seen |-> fs]
ScalarEntry == [shape |-> "scalar", title |-> <<>>, first_seen |-> Absent]

EmptyMap == [u \in {} |-> ScalarEntry]
Put(m, key, v) == [u \in DOMAIN m \cup {key} |-> IF u = key THEN v ELSE m[u]]
Del(m, keys) == [u \in DOMAIN m \ keys |-> m[u]]

VARIABLES
    seen_items,     \* DeduplicationFilter.seen_items when it is a dict
    seen_is_list,   \* TRUE when seen_items is a JSON array, not a dict
    constructed,    \* a DeduplicationFilter object exists
    file,           \* the content of SEEN_ITEMS_FILE
    now,            \* datetime.utcnow(), in days
    ticks,          \* how often the clock advanced
    saved,          \* save() was called
    call,           \* the last call made: [op, items, days]
    pre,            \* seen_items, file and now before the last call
    prev,           \* the call before the last call of an operation: [call, pre, ret, exc]
    ret,            \* what the last call returned: [items, flag]
    exc,            \* the exception the last call raised, or "none"
    pc,             \* where run_digest is
    rerun,          \* TRUE in the run_digest that follows another at once
    feed_papers,    \* what the paper sources return, all sources in order
    feed_articles,  \* what fetch_all_feeds returns
    all_papers,     \* run_digest's all_papers
    all_articles,   \* run_digest's all_articles
    new_papers,     \* run_digest's new_papers
    new_articles,   \* run_digest's new_articles
    log,            \* the stages this run_digest has been through, in order
    wrote,          \* this run's save() wrote the whole file
    first,          \* how the run before a rerun ended: [built, wrote, papers, articles]
    authors,        \* the dict of TrackedAuthor, in insertion order
    author_file,    \* the content of AUTHOR_IDS_FILE
    loaded,         \* what load_author_ids returned to lookup_author_ids
    apc,            \* where run_digest is in its steps 1 and 2
    tier1_ids,      \* discover_coauthors' tier1_ids
    todo,           \* the tier 1 authors discover_coauthors has still to ask about
    fn,             \* the function applied last on its own, or "none"
    arg,            \* what it was applied to
    out             \* what it returned

api_vars == <<ticks, saved, call, pre, prev, ret>>
run_vars ==
    <<pc, rerun, feed_papers, feed_articles, all_papers, all_articles,
      new_papers, new_articles, log, wrote, first>>
author_vars == <<authors, author_file, loaded, apc, tier1_ids, todo>>
fn_vars == <<fn, arg, out>>
vars ==
    <<seen_items, seen_is_list, constructed, file, now, exc, api_vars, run_vars,
      author_vars, fn_vars>>

\* ------------------------------------------------------------ the file
\* The content of SEEN_ITEMS_FILE: absent, unreadable, or bytes which are
\*   badenc        not text in the locale's encoding
\*   badjson       text that is not JSON
\*   notobject     JSON whose top level is not an object
\*   noitems       a JSON object without the key "items"
\*   items_scalar  {"items": v} with v null, a number or a boolean
\*   items_list    {"items": []}
\*   ok            {"items": {identity: entry, ...}}
FileOf(kind, items) == [kind |-> kind, items |-> items]
CorruptKinds ==
    {"missing", "unreadable", "badenc", "badjson", "notobject", "noitems",
     "items_scalar", "items_list"}

\* first_seen values a file written by earlier runs holds: older than the
\* retention window at Now0, and exactly at its edge
FileTimes == {Now0 - ARCHIVE_DAYS - 1, Now0 - ARCHIVE_DAYS}
FileEntries ==
    {Entry(TitleZen, fs) :
        fs \in {IsoStr(t) : t \in FileTimes} \cup {IsoTzStr(t) : t \in FileTimes}
               \cup {EmptyStr, GarbageStr, NumberVal, Absent}}
    \cup {ScalarEntry}
UIDs == {get_unique_id(i) : i \in Items}
FileMaps ==
    UNION {[D -> FileEntries] : D \in {D \in SUBSET UIDs : Cardinality(D) <= MaxFileEntries}}
Files ==
    {FileOf(k, EmptyMap) : k \in CorruptKinds} \cup {FileOf("ok", m) : m \in FileMaps}

\* ---------------------------------------------------- DeduplicationFilter
\* _load: [seen, is_list, exc]; exc # "none" leaves __init__ by that exception
LoadResult(seen, is_list, e) == [seen |-> seen, is_list |-> is_list, exc |-> e]

_load(f) ==
    CASE f.kind = "missing" -> LoadResult(EmptyMap, FALSE, "none")
      [] f.kind \in {"unreadable", "badjson"} -> LoadResult(EmptyMap, FALSE, "none")
      [] f.kind = "badenc" -> LoadResult(EmptyMap, FALSE, "UnicodeDecodeError")
      [] f.kind = "notobject" -> LoadResult(EmptyMap, FALSE, "AttributeError")
      [] f.kind = "noitems" -> LoadResult(EmptyMap, FALSE, "none")
      [] f.kind = "items_scalar" -> LoadResult(EmptyMap, FALSE, "TypeError")
      [] f.kind = "items_list" -> LoadResult(EmptyMap, TRUE, "none")
      [] OTHER -> LoadResult(f.items, FALSE, "none")

is_seen(m, item) == get_unique_id(item) \in DOMAIN m

\* mark_seen that stores nothing
mark_seen_forgets(m, item, t) == m

\* mark_seen at time t
mark_seen(m, item, t) ==
    Put(m, get_unique_id(item), Entry(item.title, isoformat(t)))

\* filter_new marking the new items only after the loop
filter_new_mark_late(m, items, t) ==
    LET fresh == SelectSeq(items, LAMBDA x : ~is_seen(m, x)) IN
    [new_items |-> fresh,
     seen |-> [u \in DOMAIN m \cup {get_unique_id(fresh[i]) : i \in DOMAIN fresh} |->
                 IF u \in DOMAIN m THEN m[u]
                 ELSE LET i == CHOOSE i \in DOMAIN fresh : get_unique_id(fresh[i]) = u
                      IN Entry(fresh[i].title, isoformat(t))]]

\* filter_new marking every item of the batch, seen before or not
filter_new_marks_all(m, items, t) ==
    LET RECURSIVE walk(_, _)
        walk(mm, rest) ==
            IF rest = <<>> THEN [new_items |-> <<>>, seen |-> mm]
            ELSE LET item == Head(rest)
                     r == walk(mark_seen(mm, item, t), Tail(rest)) IN
                 IF is_seen(mm, item) THEN r
                 ELSE [new_items |-> <<item>> \o r.new_items, seen |-> r.seen]
    IN walk(m, items)

\* filter_new on a dict: [new_items, seen]
RECURSIVE filter_new(_, _, _)
filter_new(m, items, t) ==
    IF items = <<>> THEN [new_items |-> <<>>, seen |-> m]
    ELSE LET item == Head(items) IN
         IF is_seen(m, item) THEN filter_new(m, Tail(items), t)
         ELSE LET rest == filter_new(mark_seen(m, item, t), Tail(items), t) IN
              [new_items |-> <<item>> \o rest.new_items, seen |-> rest.seen]

\* deduplicate_within_list: seen_ids is local to the call
RECURSIVE dedup_loop(_, _)
dedup_loop(items, seen_ids) ==
    IF items = <<>> THEN <<>>
    ELSE LET item == Head(items)
             uid == get_unique_id(item) IN
         IF uid \notin seen_ids
         THEN <<item>> \o dedup_loop(Tail(items), seen_ids \cup {uid})
         ELSE dedup_loop(Tail(items), seen_ids)

\* deduplicate_within_list using the store's seen_items as its seen set
deduplicate_via_store(m, items, t) ==
    LET r == filter_new(m, items, t) IN [unique_items |-> r.new_items, seen |-> r.seen]

\* deduplicate_within_list that inserts at the front instead of appending
RECURSIVE dedup_front_loop(_, _, _)
dedup_front_loop(items, seen_ids, acc) ==
    IF items = <<>> THEN acc
    ELSE LET item == Head(items)
             uid == get_unique_id(item) IN
         IF uid \notin seen_ids
         THEN dedup_front_loop(Tail(items), seen_ids \cup {uid}, <<item>> \o acc)
         ELSE dedup_front_loop(Tail(items), seen_ids, acc)

deduplicate_insert_front(m, items, t) ==
    [unique_items |-> dedup_front_loop(items, {}, <<>>), seen |-> m]

\* deduplicate_within_list keeping the last item of each identity
deduplicate_keeps_last(m, items, t) ==
    [unique_items |->
        SelectIndices(items,
            LAMBDA i : \A j \in (i + 1)..Len(items) :
                           get_unique_id(items[j]) # get_unique_id(items[i]),
            1),
     seen |-> m]

\* deduplicate_within_list of a store whose seen_items is m, at time t:
\* [unique_items, seen], seen being seen_items after the call
deduplicate_within_list(m, items, t) ==
    [unique_items |-> dedup_loop(items, {}), seen |-> m]

\* cleanup_old: the exceptions the loop over seen_items.items() can leave by
\* (data.get on a non-object; fromisoformat on a non-string; an aware
\* datetime compared with the naive cutoff)
CleanupRaises(m) ==
    {"AttributeError" : u \in {u \in DOMAIN m : m[u].shape # "object"}}
    \cup {"TypeError" : u \in {u \in DOMAIN m :
                m[u].shape = "object" /\ m[u].first_seen.k \in {"num", "iso_tz"}}}

\* to_remove also collecting the entries exactly at the cutoff
to_remove_at_cutoff(m, cutoff) ==
    {u \in DOMAIN m : /\ m[u].shape = "object"
                      /\ m[u].first_seen.k = "iso"
                      /\ m[u].first_seen.n <= cutoff}

\* the uids the loop collects in to_remove
to_remove(m, cutoff) ==
    {u \in DOMAIN m : /\ m[u].shape = "object"
                      /\ m[u].first_seen.k = "iso"
                      /\ m[u].first_seen.n < cutoff}

cleanup_old(m, days, t) == Del(m, to_remove(m, t - days))

\* ------------------------------------------------------- the store's API
\* The store used directly by a process: it builds the store, calls one
\* operation (and may call it once more with the same arguments, days later),
\* and saves; the next process builds the store again from the file.
Call(op, items, days) == [op |-> op, items |-> items, days |-> days]
Snapshot == [seen |-> seen_items, is_list |-> seen_is_list, file |-> file, now |-> now]
Returned(items, flag) == [items |-> items, flag |-> flag]
NoReturn == Returned(<<>>, FALSE)
Last == [call |-> call, pre |-> pre, ret |-> ret, exc |-> exc]
\* a process that has made no call yet
NoPrev ==
    [call |-> Call("none", <<>>, 0),
     pre |-> [seen |-> EmptyMap, is_list |-> FALSE, file |-> FileOf("missing", EmptyMap), now |-> Now0],
     ret |-> NoReturn, exc |-> "none"]
\* the retention windows cleanup_old is called with
Days == {0, ARCHIVE_DAYS}

\* the content of AUTHOR_IDS_FILE, of a kind and with a dict of authors
AuthorFileOf(kind, d) == [kind |-> kind, authors |-> d]

\* no author step has run
InitAuthors(files) ==
    /\ authors = <<>>
    /\ author_file \in files
    /\ loaded = <<>>
    /\ apc = "idle"
    /\ tier1_ids = {}
    /\ todo = <<>>

\* no run_digest has started; the sources hold papers and articles
NoFirst == [built |-> FALSE, wrote |-> FALSE, papers |-> <<>>, articles |-> <<>>]
InitRun(papers, articles) ==
    /\ pc = "idle"
    /\ rerun = FALSE
    /\ feed_papers = papers
    /\ feed_articles = articles
    /\ all_papers = <<>>
    /\ all_articles = <<>>
    /\ new_papers = <<>>
    /\ new_articles = <<>>
    /\ log = <<>>
    /\ wrote = FALSE
    /\ first = NoFirst

InitStore(files) ==
    /\ fn = "none" /\ arg = <<>> /\ out = <<>>
    /\ seen_items = EmptyMap
    /\ seen_is_list = FALSE
    /\ constructed = FALSE
    /\ file \in files
    /\ now = Now0
    /\ ticks = 0
    /\ saved = FALSE
    /\ call = Call("none", <<>>, 0)
    /\ pre = Snapshot
    /\ ret = NoReturn
    /\ exc = "none"
    /\ prev = NoPrev

Init ==
    /\ InitStore(Files)
    /\ InitRun(<<>>, <<>>)
    /\ InitAuthors({AuthorFileOf("missing", <<>>)})

\* the caller may make this call: its first on a store just built, or its
\* first call once more
\* the calls a process makes on its store: one call, then the same call
\* again, or is_seen or filter_new after a cleanup_old that removed entries
AfterCleanup(c) ==
    /\ call.op = "cleanup_old" /\ exc = "none" /\ seen_items # pre.seen
    /\ c.op \in {"is_seen", "filter_new"}
MayCall(c) ==
    /\ constructed
    /\ ~saved
    /\ \/ call.op = "__init__"
       \/ prev.call.op = "__init__" /\ (call = c \/ AfterCleanup(c))

\* DeduplicationFilter(): __init__ and _load, as a process starts
New ==
    LET r == _load(file) IN
    /\ call.op \in {"none", "save"}
    /\ call' = Call("__init__", <<>>, 0)
    /\ pre' = Snapshot
    /\ prev' = IF call.op = "save" THEN Last ELSE NoPrev
    /\ exc' = r.exc
    /\ constructed' = (r.exc = "none")
    /\ seen_items' = r.seen
    /\ seen_is_list' = r.is_list
    /\ ret' = NoReturn
    /\ UNCHANGED <<file, now, ticks, saved>>
    /\ UNCHANGED <<run_vars, author_vars, fn_vars>>

IsSeen(item) ==
    /\ MayCall(Call("is_seen", <<item>>, 0))
    /\ call' = Call("is_seen", <<item>>, 0)
    /\ pre' = Snapshot
    /\ prev' = Last
    /\ exc' = "none"
    /\ ret' = Returned(<<>>, ~seen_is_list /\ is_seen(seen_items, item))
    /\ UNCHANGED <<seen_items, seen_is_list, constructed, file, now, ticks, saved>>
    /\ UNCHANGED <<run_vars, author_vars, fn_vars>>

MarkSeen(item) ==
    /\ MayCall(Call("mark_seen", <<item>>, 0))
    /\ call' = Call("mark_seen", <<item>>, 0)
    /\ pre' = Snapshot
    /\ prev' = Last
    /\ ret' = NoReturn
    /\ IF seen_is_list
       THEN exc' = "TypeError" /\ UNCHANGED seen_items
       ELSE exc' = "none" /\ seen_items' = mark_seen(seen_items, item, now)
    /\ UNCHANGED <<seen_is_list, constructed, file, now, ticks, saved>>
    /\ UNCHANGED <<run_vars, author_vars, fn_vars>>

FilterNew(items) ==
    /\ MayCall(Call("filter_new", items, 0))
    /\ call' = Call("filter_new", items, 0)
    /\ pre' = Snapshot
    /\ prev' = Last
    /\ IF seen_is_list /\ items # <<>>
       THEN exc' = "TypeError" /\ ret' = NoReturn /\ UNCHANGED seen_items
       ELSE LET r == filter_new(seen_items, items, now) IN
            /\ exc' = "none"
            /\ ret' = Returned(r.new_items, FALSE)
            /\ seen_items' = r.seen
    /\ UNCHANGED <<seen_is_list, constructed, file, now, ticks, saved>>
    /\ UNCHANGED <<run_vars, author_vars, fn_vars>>

DeduplicateWithinList(items) ==
    /\ constructed
    /\ call.op = "__init__" \/ prev.call.op = "__init__"
    /\ call' = Call("deduplicate_within_list", items, 0)
    /\ pre' = Snapshot
    /\ prev' = Last
    /\ exc' = "none"
    /\ LET r == deduplicate_within_list(seen_items, items, now) IN
        /\ ret' = Returned(r.unique_items, FALSE)
        /\ seen_items' = r.seen
    /\ UNCHANGED <<seen_is_list, constructed, file, now, ticks, saved>>
    /\ UNCHANGED <<run_vars, author_vars, fn_vars>>

CleanupOld(days) ==
    /\ MayCall(Call("cleanup_old", <<>>, days))
    /\ call' = Call("cleanup_old", <<>>, days)
    /\ pre' = Snapshot
    /\ prev' = Last
    /\ ret' = NoReturn
    /\ IF seen_is_list
       THEN exc' = "AttributeError" /\ UNCHANGED seen_items
       ELSE IF CleanupRaises(seen_items) # {}
       THEN exc' \in CleanupRaises(seen_items) /\ UNCHANGED seen_items
       ELSE exc' = "none" /\ seen_items' = cleanup_old(seen_items, days, now)
    /\ UNCHANGED <<seen_is_list, constructed, file, now, ticks, saved>>
    /\ UNCHANGED <<run_vars, author_vars, fn_vars>>

\* what the disk does to one save(): the directory cannot be made, the file
\* cannot be opened, the write stops half way, or all is written
DiskOutcomes == {"ok", "mkdir_fails", "open_fails", "write_fails"}

\* save() writing an empty "items" object
save_writes_nothing(f, m, is_list, disk) ==
    CASE disk = "ok" -> FileOf(IF is_list THEN "items_list" ELSE "ok", EmptyMap)
      [] disk = "write_fails" -> FileOf("badjson", EmptyMap)
      [] OTHER -> f

save(f, m, is_list, disk) ==
    CASE disk = "ok" -> FileOf(IF is_list THEN "items_list" ELSE "ok", m)
      [] disk = "write_fails" -> FileOf("badjson", EmptyMap)
      [] OTHER -> f

SaveRaises(disk) == IF disk = "mkdir_fails" THEN "OSError" ELSE "none"

Save(disk) ==
    /\ constructed
    /\ ~saved
    /\ saved' = TRUE
    /\ call' = Call("save", <<>>, 0)
    /\ pre' = Snapshot
    /\ prev' = NoPrev
    /\ ret' = Returned(<<>>, disk = "ok")
    /\ exc' = SaveRaises(disk)
    /\ file' = save(file, seen_items, seen_is_list, disk)
    /\ UNCHANGED <<seen_items, seen_is_list, constructed, now, ticks>>
    /\ UNCHANGED <<run_vars, author_vars, fn_vars>>

\* a day passes
Tick ==
    /\ ticks < MaxTicks
    /\ constructed /\ ~saved
    /\ ticks' = ticks + 1
    /\ now' = now + 1
    /\ UNCHANGED <<seen_items, seen_is_list, constructed, file, saved, call, pre, prev, ret, exc>>
    /\ UNCHANGED <<run_vars, author_vars, fn_vars>>

\* the items a caller hands to the store
Batches == SeqUpTo(Papers, MaxLen)

Next ==
    \/ New
    \/ \E item \in Papers : IsSeen(item)
    \/ \E item \in Papers : MarkSeen(item)
    \/ \E items \in Batches : FilterNew(items)
    \/ \E days \in Days : CleanupOld(days)
    \/ \E disk \in DiskOutcomes : Save(disk)
    \/ Tick

Spec == Init /\ [][Next]_vars

\* ------------------------------------------- the list pass on its own
\* A caller that hands deduplicate_within_list a list of papers and
\* articles, and then the list it got back.
ListInputs ==
    IF call.op = "deduplicate_within_list" THEN {ret.items}
    ELSE SeqUpTo(Items, MaxLen)

NextLists ==
    \/ New
    \/ \E items \in ListInputs : DeduplicateWithinList(items)

SpecLists == Init /\ [][NextLists]_vars

\* ------------------------------------------------------------ run_digest
\* One run_digest after the other, the second at once after the first, the
\* sources returning the same items to both.  The file a run finds is
\* missing, corrupt as a whole, or what save() of an earlier run wrote: a
\* mapping of entries with the first_seen isoformat() gives.
WrittenEntries == {Entry(TitleZen, isoformat(t)) : t \in FileTimes}
WrittenMaps ==
    UNION {[D -> WrittenEntries] : D \in {D \in SUBSET UIDs : Cardinality(D) <= MaxFileEntries}}
PipelineFiles ==
    {FileOf(k, EmptyMap) : k \in CorruptKinds} \cup {FileOf("ok", m) : m \in WrittenMaps}

\* what the sources hold: papers and articles, MaxFeed items together
Feeds ==
    {f \in SeqUpTo(Papers, MaxFeed) \X SeqUpTo(Articles, MaxFeed) :
        Len(f[1]) + Len(f[2]) <= MaxFeed}

InitPipeline ==
    /\ InitStore(PipelineFiles)
    /\ \E f \in Feeds : InitRun(f[1], f[2])
    /\ InitAuthors({AuthorFileOf("missing", <<>>)})

\* run_digest leaves by an exception
Abort(e) == pc' = "aborted" /\ exc' = e

\* the clients are built: DeduplicationFilter() loads the file
StartRun ==
    LET r == _load(file) IN
    /\ pc = "idle" \/ (pc \in {"built", "aborted"} /\ ~rerun)
    /\ rerun' = (pc # "idle")
    /\ first' = IF pc = "idle" THEN first
                ELSE [built |-> pc = "built", wrote |-> wrote,
                      papers |-> new_papers, articles |-> new_articles]
    /\ all_papers' = <<>> /\ all_articles' = <<>>
    /\ new_papers' = <<>> /\ new_articles' = <<>>
    /\ log' = <<>>
    /\ wrote' = FALSE
    /\ constructed' = (r.exc = "none")
    /\ seen_items' = r.seen
    /\ seen_is_list' = r.is_list
    /\ IF r.exc = "none" THEN pc' = "started" /\ exc' = "none" ELSE Abort(r.exc)
    /\ UNCHANGED <<author_vars, fn_vars, file, now, feed_papers, feed_articles, api_vars>>

\* Steps 3 and 4 with the papers put through filter_relevant
FetchPapers_relevant_only ==
    /\ pc = "started"
    /\ pc' = "papers"
    /\ all_papers' = filter_relevant(feed_papers)
    /\ UNCHANGED <<author_vars, fn_vars, seen_items, seen_is_list, constructed, file, now, exc, api_vars,
                   rerun, feed_papers, feed_articles, all_articles, new_papers,
                   new_articles, log, wrote, first>>

\* Steps 3 and 4: the papers of all sources, in the order of the sources
FetchPapers ==
    /\ pc = "started"
    /\ pc' = "papers"
    /\ all_papers' = feed_papers
    /\ UNCHANGED <<author_vars, fn_vars, seen_items, seen_is_list, constructed, file, now, exc, api_vars,
                   rerun, feed_papers, feed_articles, all_articles, new_papers,
                   new_articles, log, wrote, first>>

\* Step 5 without the relevance filter
FetchArticles_unfiltered ==
    /\ pc = "papers"
    /\ pc' = "articles"
    /\ all_articles' = feed_articles
    /\ log' = Append(log, "filter_relevant")
    /\ UNCHANGED <<author_vars, fn_vars, seen_items, seen_is_list, constructed, file, now, exc, api_vars,
                   rerun, feed_papers, feed_articles, all_papers, new_papers,
                   new_articles, wrote, first>>

\* Step 5: the articles of the feeds, through filter_relevant
FetchArticles ==
    /\ pc = "papers"
    /\ pc' = "articles"
    /\ all_articles' = filter_relevant(feed_articles)
    /\ log' = Append(log, "filter_relevant")
    /\ UNCHANGED <<author_vars, fn_vars, seen_items, seen_is_list, constructed, file, now, exc, api_vars,
                   rerun, feed_papers, feed_articles, all_papers, new_papers,
                   new_articles, wrote, first>>

\* Step 6, first half: deduplicate_within_list on each of the two lists
Deduplicate ==
    /\ pc = "articles"
    /\ pc' = "deduplicated"
    /\ all_papers' = deduplicate_within_list(seen_items, all_papers, now).unique_items
    /\ all_articles' = deduplicate_within_list(seen_items, all_articles, now).unique_items
    /\ log' = Append(log, "deduplicate_within_list")
    /\ UNCHANGED <<author_vars, fn_vars, seen_items, seen_is_list, constructed, file, now, exc, api_vars,
                   rerun, feed_papers, feed_articles, new_papers, new_articles,
                   wrote, first>>

\* Step 6, second half, with the articles filtered against the store as it
\* was before the papers were marked
FilterNewItems_two_stores ==
    /\ pc = "deduplicated"
    /\ log' = Append(log, "filter_new")
    /\ IF seen_is_list /\ (all_papers # <<>> \/ all_articles # <<>>)
       THEN /\ Abort("TypeError")
            /\ UNCHANGED <<seen_items, new_papers, new_articles>>
       ELSE LET p == filter_new(seen_items, all_papers, now)
                a == filter_new(seen_items, all_articles, now) IN
            /\ pc' = "filtered"
            /\ new_papers' = p.new_items
            /\ new_articles' = a.new_items
            /\ seen_items' = filter_new(p.seen, all_articles, now).seen
            /\ UNCHANGED exc
    /\ UNCHANGED <<author_vars, fn_vars, seen_is_list, constructed, file, now, api_vars, rerun, feed_papers,
                   feed_articles, all_papers, all_articles, wrote, first>>

\* Step 6, second half: filter_new on the papers, then on the articles
FilterNewItems ==
    /\ pc = "deduplicated"
    /\ log' = Append(log, "filter_new")
    /\ IF seen_is_list /\ (all_papers # <<>> \/ all_articles # <<>>)
       THEN /\ Abort("TypeError")
            /\ UNCHANGED <<seen_items, new_papers, new_articles>>
       ELSE LET p == filter_new(seen_items, all_papers, now)
                a == filter_new(p.seen, all_articles, now) IN
            /\ pc' = "filtered"
            /\ new_papers' = p.new_items
            /\ new_articles' = a.new_items
            /\ seen_items' = a.seen
            /\ UNCHANGED exc
    /\ UNCHANGED <<author_vars, fn_vars, seen_is_list, constructed, file, now, api_vars, rerun, feed_papers,
                   feed_articles, all_papers, all_articles, wrote, first>>

\* Step 7, first half: cleanup_old() with the default ARCHIVE_DAYS
Cleanup ==
    /\ pc = "filtered"
    /\ log' = Append(log, "cleanup_old")
    /\ IF seen_is_list
       THEN Abort("AttributeError") /\ UNCHANGED seen_items
       ELSE IF CleanupRaises(seen_items) # {}
       THEN (\E e \in CleanupRaises(seen_items) : Abort(e)) /\ UNCHANGED seen_items
       ELSE /\ pc' = "cleaned"
            /\ seen_items' = cleanup_old(seen_items, ARCHIVE_DAYS, now)
            /\ UNCHANGED exc
    /\ UNCHANGED <<author_vars, fn_vars, seen_is_list, constructed, file, now, api_vars, rerun, feed_papers,
                   feed_articles, all_papers, all_articles, new_papers, new_articles,
                   wrote, first>>

\* Step 7, second half: save()
SaveStore(disk) ==
    /\ pc = "cleaned"
    /\ log' = Append(log, "save")
    /\ file' = save(file, seen_items, seen_is_list, disk)
    /\ wrote' = (disk = "ok")
    /\ IF SaveRaises(disk) = "none"
       THEN pc' = "saved" /\ UNCHANGED exc
       ELSE Abort(SaveRaises(disk))
    /\ UNCHANGED <<author_vars, fn_vars, seen_items, seen_is_list, constructed, now, api_vars, rerun,
                   feed_papers, feed_articles, all_papers, all_articles, new_papers,
                   new_articles, first>>

\* Step 8: site_builder.build and save_items_json, on the two new lists
Build ==
    /\ pc = "saved"
    /\ pc' = "built"
    /\ log' = Append(log, "build")
    /\ UNCHANGED <<author_vars, fn_vars, seen_items, seen_is_list, constructed, file, now, exc, api_vars,
                   rerun, feed_papers, feed_articles, all_papers, all_articles,
                   new_papers, new_articles, wrote, first>>

NextPipeline ==
    \/ StartRun
    \/ FetchPapers
    \/ FetchArticles
    \/ Deduplicate
    \/ FilterNewItems
    \/ Cleanup
    \/ \E disk \in DiskOutcomes : SaveStore(disk)
    \/ Build

SpecPipeline == InitPipeline /\ [][NextPipeline]_vars

\* --------------------------------------------------------- tracked authors
\* the head of TIER1_RESEARCHERS, and a name that is not on that list
TIER1_RESEARCHERS == <<"Ruben Laukkonen", "Shamil Chandaria">>
AuthorNames == Range(TIER1_RESEARCHERS) \cup {"Co Author"}
\* Semantic Scholar author ids
AuthorIds == {"1", "2", "3"}

TrackedAuthor(name, id, tier) ==
    [name |-> name, semantic_scholar_id |-> id, tier |-> tier]

\* a dict[str, TrackedAuthor] is the sequence of its values in insertion
\* order, each under its name
HasName(d, name) == \E i \in DOMAIN d : d[i].name = name
AuthorOf(d, name) == d[CHOOSE i \in DOMAIN d : d[i].name = name]
\* d[a.name] = a
DictPut(d, a) ==
    IF HasName(d, a.name)
    THEN [i \in DOMAIN d |-> IF d[i].name = a.name THEN a ELSE d[i]]
    ELSE Append(d, a)

\* The content of AUTHOR_IDS_FILE: absent, unreadable, or bytes which are
\*   badenc      not text in the locale's encoding
\*   badjson     text that is not JSON
\*   notobject   JSON whose top level is not an object
\*   noauthors   a JSON object without the key "authors"
\*   notdict     {"authors": v} with v no object
\*   badentry    {"authors": {name: v}} with v no TrackedAuthor record
\*   ok          {"authors": {name: record, ...}}
\* (AuthorFileOf builds it)
AuthorCorruptKinds ==
    {"missing", "unreadable", "badenc", "badjson", "notobject", "noauthors",
     "notdict", "badentry"}
Tiers == {1, 2}
TrackedAuthors ==
    {TrackedAuthor(n, i, t) : n \in AuthorNames, i \in AuthorIds, t \in Tiers}
\* dicts of at most n authors
AuthorDicts(n) ==
    {d \in SeqUpTo(TrackedAuthors, n) :
        \A i, j \in DOMAIN d : d[i].name = d[j].name => i = j}
AuthorFiles ==
    {AuthorFileOf(k, <<>>) : k \in AuthorCorruptKinds}
    \cup {AuthorFileOf("ok", d) : d \in AuthorDicts(MaxTracked)}

\* load_author_ids: [authors, exc]
load_author_ids(f) ==
    CASE f.kind \in {"missing", "unreadable", "badjson", "noauthors"} ->
            [authors |-> <<>>, exc |-> "none"]
      [] f.kind = "badenc" -> [authors |-> <<>>, exc |-> "UnicodeDecodeError"]
      [] f.kind \in {"notobject", "notdict"} -> [authors |-> <<>>, exc |-> "AttributeError"]
      [] f.kind = "badentry" -> [authors |-> <<>>, exc |-> "TypeError"]
      [] OTHER -> [authors |-> f.authors, exc |-> "none"]

\* save_author_ids: the file afterwards, and the exception it leaves by
save_author_ids(f, d, disk) ==
    CASE disk = "ok" -> AuthorFileOf("ok", d)
      [] disk = "write_fails" -> AuthorFileOf("badjson", <<>>)
      [] OTHER -> f
SaveAuthorsRaises(disk) == IF disk = "ok" THEN "none" ELSE "OSError"

\* what search_author answers for each name: an id, or None
SearchAnswers == [Range(TIER1_RESEARCHERS) -> AuthorIds \cup {None}]

\* the loop of lookup_author_ids over the names
RECURSIVE lookup_loop(_, _, _)
lookup_loop(d, names, found) ==
    IF names = <<>> THEN d
    ELSE LET name == Head(names) IN
         IF ~HasName(d, name) /\ Truthy(found[name])
         THEN lookup_loop(Append(d, TrackedAuthor(name, found[name], 1)), Tail(names), found)
         ELSE lookup_loop(d, Tail(names), found)

\* one co-author as get_author_coauthors returns it
Coauthor(id, name, count) == [authorId |-> id, name |-> name, paperCount |-> count]
PaperCounts == {COAUTHOR_MIN_PAPERS - 1, COAUTHOR_MIN_PAPERS}
\* what get_author_coauthors(author_id) can return: co-authors of distinct
\* ids other than author_id, the higher paperCount first
CoauthorLists(author_id) ==
    {l \in SeqUpTo({Coauthor(i, n, c) : i \in AuthorIds \ {author_id},
                                        n \in AuthorNames, c \in PaperCounts},
                   MaxCoauthors) :
        /\ \A i, j \in DOMAIN l : l[i].authorId = l[j].authorId => i = j
        /\ \A i, j \in DOMAIN l : i < j => l[i].paperCount >= l[j].paperCount}

\* the inner loop of discover_coauthors, over the co-authors of one author
RECURSIVE coauthor_loop(_, _, _)
coauthor_loop(d, coauthors, t1) ==
    IF coauthors = <<>> THEN d
    ELSE LET c == Head(coauthors) IN
         IF /\ c.paperCount >= COAUTHOR_MIN_PAPERS
            /\ c.authorId \notin t1
            /\ ~\E i \in DOMAIN d : d[i].semantic_scholar_id = c.authorId
         THEN coauthor_loop(DictPut(d, TrackedAuthor(c.name, c.authorId, 2)),
                            Tail(coauthors), t1)
         ELSE coauthor_loop(d, Tail(coauthors), t1)

InitTracking ==
    /\ InitStore({FileOf("missing", EmptyMap)})
    /\ InitRun(<<>>, <<>>)
    /\ InitAuthors(AuthorFiles)

\* run_digest leaves by an exception in its steps 1 and 2
AbortTracking(e) == apc' = "aborted" /\ exc' = e

\* Step 1 when the lookup is skipped: load_author_ids()
LoadAuthorIds ==
    LET r == load_author_ids(author_file) IN
    /\ apc = "idle"
    /\ loaded' = r.authors
    /\ authors' = r.authors
    /\ IF r.exc = "none" THEN apc' = "tracked" /\ UNCHANGED exc ELSE AbortTracking(r.exc)
    /\ UNCHANGED <<seen_items, seen_is_list, constructed, file, now, api_vars,
                   run_vars, fn_vars, author_file, tier1_ids, todo>>

\* Step 1: lookup_author_ids
LookupAuthorIds(found, disk) ==
    LET r == load_author_ids(author_file)
        d == lookup_loop(r.authors, TIER1_RESEARCHERS, found) IN
    /\ apc = "idle"
    /\ loaded' = r.authors
    /\ IF r.exc # "none"
       THEN AbortTracking(r.exc) /\ UNCHANGED <<authors, author_file>>
       ELSE /\ authors' = d
            /\ author_file' = save_author_ids(author_file, d, disk)
            /\ IF SaveAuthorsRaises(disk) = "none"
               THEN apc' = "looked_up" /\ UNCHANGED exc
               ELSE AbortTracking(SaveAuthorsRaises(disk))
    /\ UNCHANGED <<seen_items, seen_is_list, constructed, file, now, api_vars,
                   run_vars, fn_vars, tier1_ids, todo>>

\* Step 2, discover_coauthors up to its loop: tier1_ids, list(authors.items())
DiscoverCoauthors ==
    /\ apc = "looked_up"
    /\ apc' = "discovering"
    /\ tier1_ids' = {authors[i].semantic_scholar_id : i \in {i \in DOMAIN authors : authors[i].tier = 1}}
    /\ todo' = SelectSeq(authors, LAMBDA a : a.tier = 1)
    /\ UNCHANGED <<seen_items, seen_is_list, constructed, file, now, exc, api_vars,
                   run_vars, fn_vars, authors, author_file, loaded>>

\* Step 2, one round of the loop: the co-authors of the next tier 1 author
CoauthorsOf(coauthors) ==
    /\ apc = "discovering"
    /\ todo # <<>>
    /\ todo' = Tail(todo)
    /\ authors' = coauthor_loop(authors, coauthors, tier1_ids)
    /\ UNCHANGED <<seen_items, seen_is_list, constructed, file, now, exc, api_vars,
                   run_vars, fn_vars, author_file, loaded, apc, tier1_ids>>

\* Step 2, after the loop: save_author_ids
DiscoverCoauthorsSave(disk) ==
    /\ apc = "discovering"
    /\ todo = <<>>
    /\ author_file' = save_author_ids(author_file, authors, disk)
    /\ IF SaveAuthorsRaises(disk) = "none"
       THEN apc' = "tracked" /\ UNCHANGED exc
       ELSE AbortTracking(SaveAuthorsRaises(disk))
    /\ UNCHANGED <<seen_items, seen_is_list, constructed, file, now, api_vars,
                   run_vars, fn_vars, authors, loaded, tier1_ids, todo>>

NextTracking ==
    \/ LoadAuthorIds
    \/ \E found \in SearchAnswers, disk \in DiskOutcomes : LookupAuthorIds(found, disk)
    \/ DiscoverCoauthors
    \/ /\ todo # <<>>
       /\ \E coauthors \in CoauthorLists(Head(todo).semantic_scholar_id) :
              CoauthorsOf(coauthors)
    \/ \E disk \in DiskOutcomes : DiscoverCoauthorsSave(disk)

SpecTracking == InitTracking /\ [][NextTracking]_vars

\* ------------------------------------------- the relevance filter on its own
\* Texts with a keyword once, twice, next to another keyword, inside a
\* longer word, and in the abstract only
TitleZenZen == <<"Z", "e", "n", " ", "z", "e", "n">>
TitleYogaZen == <<"y", "o", "g", "a", ",", " ", "Z", "E", "N">>
TitleZenPractice == <<"Z", "e", "n", " ", "p", "r", "a", "c", "t", "i", "c", "e">>
Texts ==
    {<<TitleZen, NoText>>, <<TitleCitizen, NoText>>, <<TitleZenZen, NoText>>,
     <<TitleYogaZen, NoText>>, <<TitleZenPractice, NoText>>, <<TitleCitizen, TitleZen>>}
\* date_published as the sources set it: absent, naive (on the day of the
\* fetch or the day after), or aware
PublishedDates == {NoDate, Naive(Now0), Naive(Now0 + 1), Aware(Now0)}
FetchedItem(t, d) ==
    [DigestItem(t[1], "A", ARTICLE, None) EXCEPT !.abstract = t[2], !.date_published = d]
\* every text without a date, and one text with every date
ScoredItems ==
    {FetchedItem(t, NoDate) : t \in Texts}
        \cup {FetchedItem(<<TitleZen, NoText>>, d) : d \in PublishedDates}
        \cup {FetchedItem(<<TitleYogaZen, NoText>>, Naive(Now0 + 1))}

\* keyword lists a RelevanceFilter is built with: the configured one, one
\* naming a keyword twice, one in upper case, one of two keywords
KeywordLists ==
    {RSS_FILTER_KEYWORDS,
     << <<"z","e","n">>, <<"z","e","n">> >>,
     << <<"Y","O","G","A">>, <<"Z","E","N">> >>}
Thresholds == {RSS_KEYWORD_THRESHOLD, RSS_KEYWORD_THRESHOLD + 1}
Filters == {RelevanceFilter(kws, th) : kws \in KeywordLists, th \in Thresholds}

\* x.date_published or x.date_fetched
EffectiveDate(item) ==
    IF item.date_published # NoDate THEN item.date_published ELSE item.date_fetched

\* the sort key of score_and_sort
SortKey(item) == <<item.relevance_score, EffectiveDate(item)>>
\* key a > key b, for keys that can be compared
KeyGreater(a, b) == a[1] > b[1] \/ (a[1] = b[1] /\ a[2].n > b[2].n)
\* comparing the keys raises TypeError: equal scores, then a datetime with
\* tzinfo against one without
KeysIncomparable(a, b) == a[1] = b[1] /\ a[2].k # b[2].k

\* sorted(..., reverse=True): x goes behind every element whose key is not
\* smaller than its own
RECURSIVE InsertDescending(_, _)
InsertDescending(sorted, x) ==
    IF sorted = <<>> THEN <<x>>
    ELSE IF KeyGreater(SortKey(x), SortKey(Head(sorted)))
         THEN <<x>> \o sorted
         ELSE <<Head(sorted)>> \o InsertDescending(Tail(sorted), x)

RECURSIVE SortedDescending(_)
SortedDescending(items) ==
    IF items = <<>> THEN <<>>
    ELSE InsertDescending(SortedDescending(SubSeq(items, 1, Len(items) - 1)),
                          items[Len(items)])

\* self.score_and_sort(items): [items, exc]
score_and_sort_of(self, items) ==
    LET scored == [i \in DOMAIN items |-> ScoredBy(self, items[i])] IN
    IF \E i, j \in DOMAIN scored : KeysIncomparable(SortKey(scored[i]), SortKey(scored[j]))
    THEN [items |-> <<>>, exc |-> "TypeError"]
    ELSE [items |-> SortedDescending(scored), exc |-> "none"]

InitRelevance ==
    /\ InitStore({FileOf("missing", EmptyMap)})
    /\ InitRun(<<>>, <<>>)
    /\ InitAuthors({AuthorFileOf("missing", <<>>)})

CalculateRelevance(self, item) ==
    /\ fn = "none"
    /\ fn' = "calculate_relevance"
    /\ arg' = [self |-> self, item |-> item]
    /\ out' = calculate_relevance_of(self, item)
    /\ UNCHANGED <<seen_items, seen_is_list, constructed, file, now, exc, api_vars,
                   run_vars, author_vars>>

FilterRelevant(self, items) ==
    /\ fn = "none"
    /\ fn' = "filter_relevant"
    /\ arg' = [self |-> self, items |-> items]
    /\ out' = filter_relevant_of(self, items)
    /\ UNCHANGED <<seen_items, seen_is_list, constructed, file, now, exc, api_vars,
                   run_vars, author_vars>>

ScoreAndSort(self, items) ==
    LET r == score_and_sort_of(self, items) IN
    /\ fn = "none"
    /\ fn' = "score_and_sort"
    /\ arg' = [self |-> self, items |-> items]
    /\ out' = r.items
    /\ exc' = r.exc
    /\ UNCHANGED <<seen_items, seen_is_list, constructed, file, now, api_vars,
                   run_vars, author_vars>>

NextRelevance ==
    \/ \E self \in Filters, item \in ScoredItems : CalculateRelevance(self, item)
    \/ \E self \in Filters, items \in SeqUpTo(ScoredItems, MaxLen) : FilterRelevant(self, items)
    \/ \E self \in Filters, items \in SeqUpTo(ScoredItems, MaxLen) : ScoreAndSort(self, items)

SpecRelevance == InitRelevance /\ [][NextRelevance]_vars

\* ------------------------------------------------- DigestItem serialization
\* JSON null in the dict of a datetime field
JsonNull == [k |-> "null", n |-> 0]

\* datetime.isoformat() of an item's date: the zone offset is written for a
\* datetime with tzinfo only
date_isoformat(d) == IF d.k = "aware" THEN IsoTzStr(d.n) ELSE IsoStr(d.n)
\* datetime.fromisoformat(s)
fromisoformat(s) == IF s.k = "iso_tz" THEN Aware(s.n) ELSE Naive(s.n)
FromisoformatRaises(s) == s.k \notin {"iso", "iso_tz"}

\* asdict(author)
AuthorDict(a) == [name |-> a.name, author_id |-> a.author_id, affiliation |-> a.affiliation]

\* to_dict writing every date without its zone offset
to_dict_drops_zone(item) ==
    [item EXCEPT !.item_type = item.item_type.value,
                 !.source_type = item.source_type.value,
                 !.date_published = IF item.date_published # NoDate
                                    THEN IsoStr(item.date_published.n) ELSE JsonNull,
                 !.date_fetched = IsoStr(item.date_fetched.n),
                 !.authors = [i \in DOMAIN item.authors |-> AuthorDict(item.authors[i])]]

\* item.to_dict()
to_dict(item) ==
    [item EXCEPT !.item_type = item.item_type.value,
                 !.source_type = item.source_type.value,
                 !.date_published = IF item.date_published # NoDate
                                    THEN date_isoformat(item.date_published) ELSE JsonNull,
                 !.date_fetched = date_isoformat(item.date_fetched),
                 !.authors = [i \in DOMAIN item.authors |-> AuthorDict(item.authors[i])]]

\* ItemType(tag), SourceType(tag): the member with that value
EnumOf(members, tag) == CHOOSE e \in members : e.value = tag

\* DigestItem.from_dict(data) raises
FromDictRaises(data) ==
    IF \/ data.item_type \notin {e.value : e \in ItemTypes}
       \/ data.source_type \notin {e.value : e \in SourceTypes}
       \/ data.date_published # JsonNull /\ FromisoformatRaises(data.date_published)
       \/ data.date_fetched # JsonNull /\ FromisoformatRaises(data.date_fetched)
    THEN "ValueError" ELSE "none"

\* DigestItem.from_dict(data)
from_dict(data) ==
    [data EXCEPT !.item_type = EnumOf(ItemTypes, data.item_type),
                 !.source_type = EnumOf(SourceTypes, data.source_type),
                 !.date_published = IF data.date_published # JsonNull
                                    THEN fromisoformat(data.date_published) ELSE NoDate,
                 !.date_fetched = IF data.date_fetched # JsonNull
                                  THEN fromisoformat(data.date_fetched) ELSE NoDate,
                 !.authors = [i \in DOMAIN data.authors |->
                                 Author(data.authors[i].name, data.authors[i].author_id,
                                        data.authors[i].affiliation)]]

\* items with every kind and source, dates of every sort, optional fields
\* absent, empty and filled, and up to two authors
AuthorLists ==
    {<<>>, <<Author("x", None, None)>>, <<Author("x", None, None), Author("y", "1", "aff")>>}
SerializedItems ==
    {[DigestItem(TitleZen, "A", t, doi) EXCEPT
          !.source_type = s, !.date_published = d, !.authors = au, !.abstract = ab,
          !.relevance_score = sc, !.matched_keywords = IF sc = 0 THEN <<>> ELSE <<TitleZen>>] :
        t \in ItemTypes, s \in SourceTypes, doi \in {None, "", "X"},
        d \in {NoDate, Naive(Now0), Aware(Now0)}, au \in AuthorLists,
        ab \in {NoText, <<>>, TitleZen}, sc \in {0, 1}}

InitSerialization ==
    /\ InitStore({FileOf("missing", EmptyMap)})
    /\ InitRun(<<>>, <<>>)
    /\ InitAuthors({AuthorFileOf("missing", <<>>)})

ToDict(item) ==
    /\ fn = "none"
    /\ fn' = "to_dict"
    /\ arg' = [item |-> item, data |-> <<>>]
    /\ out' = to_dict(item)
    /\ UNCHANGED <<seen_items, seen_is_list, constructed, file, now, exc, api_vars,
                   run_vars, author_vars>>

FromDict ==
    /\ fn = "to_dict"
    /\ fn' = "from_dict"
    /\ arg' = [item |-> arg.item, data |-> out]
    /\ IF FromDictRaises(out) = "none"
       THEN out' = from_dict(out) /\ UNCHANGED exc
       ELSE out' = <<>> /\ exc' = FromDictRaises(out)
    /\ UNCHANGED <<seen_items, seen_is_list, constructed, file, now, api_vars,
                   run_vars, author_vars>>

NextSerialization ==
    \/ \E item \in SerializedItems : ToDict(item)
    \/ FromDict

SpecSerialization == InitSerialization /\ [][NextSerialization]_vars

\* ================================================================ claims
\* helpers of the statements below
\* the identities of a list of items
Ids(items) == {get_unique_id(items[i]) : i \in DOMAIN items}
\* the n-th smallest index of a set K of indices
NthOf(K, n) == CHOOSE i \in K : Cardinality({j \in K : j <= i}) = n
\* the items of a list at the indices K, in the list's order
AtIndices(items, K) == [n \in 1..Cardinality(K) |-> items[NthOf(K, n)]]
\* the indices of a list holding the first occurrence of an identity
FirstOccurrences(items) ==
    {i \in DOMAIN items :
        \A j \in 1..(i - 1) : get_unique_id(items[j]) # get_unique_id(items[i])}
\* the last call was op and returned normally
Did(op) == call.op = op /\ exc = "none"

\* C1: mark_seen on an identity that is already in the store (with a
\* first_seen that mark_seen wrote) leaves that identity's stored first_seen
\* as it was.
C1_MarkSeenKeepsFirstSeen ==
    (/\ Did("mark_seen")
     /\ get_unique_id(call.items[1]) \in DOMAIN pre.seen
     /\ pre.seen[get_unique_id(call.items[1])].shape = "object"
     /\ pre.seen[get_unique_id(call.items[1])].first_seen.k = "iso")
        => seen_items[get_unique_id(call.items[1])].first_seen
             = pre.seen[get_unique_id(call.items[1])].first_seen

\* C2: filter_new returns, in input order, exactly the items whose identity
\* was not in the store before the call and did not occur earlier in the
\* batch, and the store afterwards holds each returned identity with the
\* returned item's title and the time of the call, next to what it held.
C2_FilterNewFirstUnseen ==
    Did("filter_new") =>
        LET items == call.items
            K == {i \in FirstOccurrences(items) :
                    get_unique_id(items[i]) \notin DOMAIN pre.seen}
        IN /\ ret.items = AtIndices(items, K)
           /\ DOMAIN seen_items = DOMAIN pre.seen \cup Ids(ret.items)
           /\ \A i \in K : seen_items[get_unique_id(items[i])]
                             = Entry(items[i].title, isoformat(pre.now))

\* C2 witness: a batch of two unseen items of one identity, of which only
\* the first came back.
C2_Witness ==
    /\ Did("filter_new")
    /\ Len(call.items) = 2
    /\ get_unique_id(call.items[1]) = get_unique_id(call.items[2])
    /\ call.items[1] # call.items[2]
    /\ get_unique_id(call.items[1]) \notin DOMAIN pre.seen
    /\ ret.items = <<call.items[1]>>

\* two filter_new calls in a row on one batch, none of whose identities was
\* in the store before the first
TwiceOnFreshBatch ==
    /\ Did("filter_new")
    /\ prev.call.op = "filter_new" /\ prev.exc = "none"
    /\ call.items = prev.call.items
    /\ Ids(call.items) \cap DOMAIN prev.pre.seen = {}

\* C3 as stated: the first call returns the full batch, the second nothing.
C3_TwiceFullThenEmpty ==
    TwiceOnFreshBatch => (prev.ret.items = call.items /\ ret.items = <<>>)

\* C3 amended: the first call returns the first occurrence of each identity
\* of the batch (the full batch when its identities are pairwise distinct),
\* the second call returns nothing.
C3_TwiceFirstsThenEmpty ==
    TwiceOnFreshBatch =>
        /\ prev.ret.items = AtIndices(call.items, FirstOccurrences(call.items))
        /\ (Cardinality(Ids(call.items)) = Len(call.items)
                => prev.ret.items = call.items)
        /\ ret.items = <<>>

\* C3 witness: a batch of two distinct identities went through twice.
C3_Witness ==
    /\ TwiceOnFreshBatch
    /\ Len(call.items) = 2
    /\ Cardinality(Ids(call.items)) = 2
    /\ prev.ret.items = call.items
    /\ ret.items = <<>>

\* the entries cleanup_old(days) at time t is to remove: those whose
\* first_seen is a timestamp older than t - days
Expired(m, days, t) ==
    {u \in DOMAIN m : /\ m[u].shape = "object"
                      /\ m[u].first_seen.k \in {"iso", "iso_tz"}
                      /\ m[u].first_seen.n < t - days}

\* C4: after cleanup_old(days) the store is the store before it without
\* the entries whose first_seen is older than now - days: those are gone,
\* all others (newer ones, ones without a readable timestamp) are unchanged.
C4_CleanupRemovesExactlyExpired ==
    (call.op = "cleanup_old" /\ ~pre.is_list) =>
        seen_items = Del(pre.seen, Expired(pre.seen, call.days, pre.now))

\* C5: of two runs in immediate succession on the same upstream items, the
\* first having got through all its stages and written the store, the
\* second has no new paper and no new article.
C5_SecondRunYieldsNothing ==
    (rerun /\ pc = "built" /\ first.built /\ first.wrote)
        => (new_papers = <<>> /\ new_articles = <<>>)

\* the stages in the order the statement gives, and in the order of main.py
StagesAsStated ==
    <<"deduplicate_within_list", "filter_relevant", "filter_new", "cleanup_old",
      "save", "build">>
StagesOfCode ==
    <<"filter_relevant", "deduplicate_within_list", "filter_new", "cleanup_old",
      "save", "build">>
IsPrefix(a, b) == Len(a) <= Len(b) /\ \A i \in DOMAIN a : a[i] = b[i]
\* this run has built the list of articles it hands to filter_new
ArticlesReady == \E i \in DOMAIN log : log[i] = "filter_new"

Variants ==
    [title : Titles, url : URLs, item_type : ItemTypes,
     doi : {None, "", "X", "Y"}, excerpt : {NoText}, abstract : {NoText, TitleZen},
     relevance_score : {0, 1}, matched_keywords : {<<>>, <<TitleZen>>}]
HasDoi(item) == item.doi # None /\ item.doi # ""

C8_DedupIdempotent ==
    (/\ Did("deduplicate_within_list")
     /\ prev.call.op = "deduplicate_within_list"
     /\ call.items = prev.ret.items)
        => ret.items = call.items

\* C8 witness: the first pass dropped a duplicate and the second pass, on
\* its result of two, returned the same.
C8_Witness ==
    /\ Did("deduplicate_within_list")
    /\ prev.call.op = "deduplicate_within_list"
    /\ call.items = prev.ret.items
    /\ Len(prev.call.items) > Len(prev.ret.items)
    /\ ret.items = call.items

\* C9: deduplicate_within_list returns the first occurrence of each
\* identity of its input, in input order, and leaves seen_items as it was.
C9_DedupFirstOccurrencesNoHistory ==
    Did("deduplicate_within_list") =>
        /\ ret.items = AtIndices(call.items, FirstOccurrences(call.items))
        /\ seen_items = pre.seen

\* C9 witness: a list of two items of one identity, unknown to the
\* store, came back as its first item.
C9_Witness ==
    /\ Did("deduplicate_within_list")
    /\ Len(call.items) = 2
    /\ call.items[1] # call.items[2]
    /\ get_unique_id(call.items[1]) = get_unique_id(call.items[2])
    /\ get_unique_id(call.items[1]) \notin DOMAIN pre.seen
    /\ ret.items = <<call.items[1]>>

\* C10: a DeduplicationFilter built on a missing or corrupt file exists,
\* holds an empty mapping, and the calls made on it next do not raise.
C10_ConstructionNeverFails ==
    /\ (call.op = "__init__" /\ pre.file.kind \in CorruptKinds)
         => (exc = "none" /\ constructed /\ ~seen_is_list /\ seen_items = EmptyMap)
    /\ (/\ prev.call.op = "__init__" /\ prev.pre.file.kind \in CorruptKinds
        /\ call.op \in {"is_seen", "mark_seen", "filter_new", "cleanup_old"})
         => exc = "none"

\* C11: save() never raises: whatever the disk does (the directory cannot be
\* made, the file cannot be opened or written), save returns normally and
\* seen_items is what it was before the call.
C11_SaveNeverRaises ==
    call.op = "save" =>
        (exc = "none" /\ seen_items = pre.seen /\ seen_is_list = pre.is_list)

\* C12: through lookup_author_ids and discover_coauthors every author of
\* the loaded store stays in the dict under its name with the id and the
\* tier it was loaded with.
C12_TrackedAuthorsKeepIds ==
    apc \in {"looked_up", "discovering", "tracked"} =>
        \A i \in DOMAIN loaded :
            /\ HasName(authors, loaded[i].name)
            /\ AuthorOf(authors, loaded[i].name) = loaded[i]

\* ---------------------------------------------------------------- C13
\* the indices of the items whose match count reaches the threshold
KeptIndices(self, items) ==
    {i \in DOMAIN items : calculate_relevance_of(self, items[i]).score >= self.threshold}
\* the elements of a sequence at a set of indices, in index order
RECURSIVE Restrict(_, _)
Restrict(seq, idx) ==
    IF idx = {} THEN <<>>
    ELSE LET m == CHOOSE i \in idx : \A j \in idx : i <= j
         IN <<seq[m]>> \o Restrict(seq, idx \ {m})
\* items read in the order p
Permuted(items, p) == [i \in DOMAIN items |-> items[p[i]]]

\* C13: filter_relevant(items) returns, in input order, exactly the items
\* whose match count is at least the threshold, each with relevance_score
\* set to its match count and matched_keywords to its matched list; and for
\* every permutation p of the input, filter_relevant of the permuted input
\* is the same kept items with the same scores, read in the order p
C13_FilterRelevantPerItem ==
    fn = "filter_relevant" =>
        LET self == arg.self
            items == arg.items
            scored == [i \in DOMAIN items |-> ScoredBy(self, items[i])]
        IN /\ out = Restrict(scored, KeptIndices(self, items))
           /\ \A i \in DOMAIN out :
                  /\ out[i].relevance_score = calculate_relevance_of(self, out[i]).score
                  /\ out[i].matched_keywords = calculate_relevance_of(self, out[i]).matched
                  /\ out[i].relevance_score >= self.threshold
           /\ \A p \in Permutations(DOMAIN items) :
                  filter_relevant_of(self, Permuted(items, p))
                      = Restrict(Permuted(scored, p),
                                 {i \in DOMAIN items : p[i] \in KeptIndices(self, items)})

\* a list of two different items of which exactly one is kept
C13_Witness ==
    /\ fn = "filter_relevant"
    /\ Len(arg.items) = 2
    /\ Len(out) = 1
    /\ out[1].relevance_score >= arg.self.threshold
    /\ out[1].matched_keywords # <<>>
    /\ KeptIndices(arg.self, arg.items) = {2}

\* ---------------------------------------------------------------- C14
\* the configured keywords, lowercased, that occur in the text of the item
DistinctKeywordsFound(self, item) ==
    {Lower(self.patterns[i]) : i \in
        {j \in DOMAIN self.patterns :
            PatternSearch(self.patterns[j], Lower(JoinParts(TextParts(item))))}}

\* C14: calculate_relevance(item) returns as match count the number of
\* distinct configured keywords that occur in the item's text, for every
\* configured keyword list, and as matched keywords the configured list
\* restricted to the keywords that matched, so that the match count is the
\* number of different matched keywords
C14_ScoreCountsDistinctKeywords ==
    fn = "calculate_relevance" =>
        /\ out.score = Cardinality(DistinctKeywordsFound(arg.self, arg.item))
        /\ out.score = Cardinality(Range(out.matched))
        /\ Range(out.matched) = DistinctKeywordsFound(arg.self, arg.item)

\* ---------------------------------------------------------------- C15
\* key a is not smaller than key b, on the (score, effective date) order
KeyAtLeast(a, b) == a[1] > b[1] \/ (a[1] = b[1] /\ a[2].n >= b[2].n)

\* C15: score_and_sort(items) returns a permutation of the input in which
\* every item carries its score whatever the threshold, ordered by
\* relevance_score descending, then by effective date descending, items
\* with equal score and equal effective date keeping their input order
C15_ScoreAndSortStable ==
    fn = "score_and_sort" =>
        /\ exc = "none"
        /\ \E p \in Permutations(DOMAIN arg.items) :
               /\ out = [i \in DOMAIN arg.items |-> ScoredBy(arg.self, arg.items[p[i]])]
               /\ \A i, j \in DOMAIN arg.items :
                      i < j =>
                          /\ KeyAtLeast(SortKey(out[i]), SortKey(out[j]))
                          /\ SortKey(out[i]) = SortKey(out[j]) => p[i] < p[j]

\* ---------------------------------------------------------------- C16
\* kw occurs in text, letters compared without case, with no word character
\* right before it and none right after it
OccursAsWord(kw, text) ==
    \E i \in 0..(Len(text) - Len(kw)) :
        /\ Lower(SubSeq(text, i + 1, i + Len(kw))) = Lower(kw)
        /\ i = 0 \/ ~IsWordChar(text[i])
        /\ i + Len(kw) = Len(text) \/ ~IsWordChar(text[i + Len(kw) + 1])
Matched(kw) == \E k \in DOMAIN out.matched : out.matched[k] = Lower(kw)
KeywordZen == <<"z", "e", "n">>

\* C16: a keyword is among the matched keywords exactly when it occurs in
\* the item's text as a whole word, letters compared without case: "zen"
\* is not matched by a text whose only occurrence is inside "citizen" and
\* is matched by "Zen practice"
C16_WholeWordCaseInsensitive ==
    fn = "calculate_relevance" =>
        LET text == JoinParts(TextParts(arg.item))
            kws == arg.self.patterns
        IN /\ \A i \in DOMAIN kws : Matched(kws[i]) <=> OccursAsWord(kws[i], text)
           /\ \A i \in DOMAIN kws :
                  Lower(kws[i]) = KeywordZen =>
                      /\ text = TitleCitizen => ~Matched(kws[i])
                      /\ text = TitleZenPractice => Matched(kws[i])

\* "zen" is configured and the text is "citizen": nothing is matched
C16_Witness ==
    /\ fn = "calculate_relevance"
    /\ JoinParts(TextParts(arg.item)) = TitleCitizen
    /\ \E i \in DOMAIN arg.self.patterns : Lower(arg.self.patterns[i]) = KeywordZen
    /\ PatternSearch_substring(KeywordZen, TitleCitizen)
    /\ out.score = 0

\* ---------------------------------------------------------------- C17
\* C17: from_dict(to_dict(item)) equals item in every field: the kind and
\* the source go through their string tags, the timestamps through ISO-8601
\* text, the authors through records; a date_published, doi or abstract
\* that is absent is null in the dict, not an empty string, and absent again
\* in the item read back
C17_SerializationRoundTrips ==
    fn = "from_dict" =>
        /\ exc = "none"
        /\ out = arg.item
        /\ arg.data.item_type = arg.item.item_type.value
        /\ arg.data.source_type = arg.item.source_type.value
        /\ arg.item.date_published # NoDate =>
               arg.data.date_published.k \in {"iso", "iso_tz"}
        /\ arg.data.date_fetched.k \in {"iso", "iso_tz"}
        /\ \A i \in DOMAIN arg.item.authors : arg.data.authors[i] = AuthorDict(arg.item.authors[i])
        /\ arg.item.date_published = NoDate =>
               arg.data.date_published = JsonNull /\ out.date_published = NoDate
        /\ arg.item.doi = None => arg.data.doi = None /\ out.doi = None
        /\ arg.item.abstract = NoText => arg.data.abstract = NoText /\ out.abstract = NoText

\* an item with an aware date_published, two authors and no doi, read back
C17_Witness ==
    /\ fn = "from_dict"
    /\ arg.item.date_published.k = "aware"
    /\ Len(arg.item.authors) = 2
    /\ arg.item.doi = None
    /\ arg.item.abstract = NoText
    /\ arg.data.date_published = IsoTzStr(Now0)
    /\ out.item_type = PAPER

\* ---------------------------------------------------------------- C18
\* C18: whatever the sources return and whatever the persisted JSON holds,
\* malformed or not, run_digest does not leave by an exception before the
\* render step (a disk that refuses the directory at save() set aside, which
\* is neither a source failure nor malformed JSON)
C18_PipelineNeverAborts ==
    pc = "aborted" => exc = SaveRaises("mkdir_fails")

\* ---------------------------------------------------------------- C19
\* the items of a list that the store does not hold
UnseenIn(seen, items) == SelectSeq(items, LAMBDA x : ~is_seen(seen, x))

\* C19: in a run, the new papers are the fetched papers the history did not
\* hold when the run began, and the new articles are the fetched articles it
\* did not hold: a paper and an article of the same identity do not remove
\* one another
C19_PapersAndArticlesApart ==
    (pc \in {"filtered", "cleaned"} /\ ~seen_is_list) =>
        /\ new_papers = UnseenIn(_load(file).seen, all_papers)
        /\ new_articles = UnseenIn(_load(file).seen, all_articles)

\* ---------------------------------------------------------------- C20
\* the identities the last call took out of the store
Removed(before, after) == DOMAIN before \ DOMAIN after
\* the identities the cleanup_old before the last call took out
RemovedByCleanup ==
    IF prev.call.op = "cleanup_old" /\ prev.exc = "none"
    THEN Removed(prev.pre.seen, pre.seen) ELSE {}

\* C20: an identity leaves the store of a process only by a cleanup_old
\* that finds its first_seen older than the retention window; after that
\* is_seen is false for it, and a filter_new on an item of that identity
\* returns an item of that identity as new and stores the identity again
\* with the time of that call as first_seen
C20_RemovedThenNewAgain ==
    /\ (call.op \notin {"none", "__init__"} /\ ~pre.is_list) =>
           \A u \in Removed(pre.seen, seen_items) :
               /\ Did("cleanup_old")
               /\ u \in Expired(pre.seen, call.days, pre.now)
    /\ Did("is_seen") =>
           (get_unique_id(call.items[1]) \in RemovedByCleanup => ~ret.flag)
    /\ Did("filter_new") =>
           \A i \in DOMAIN call.items :
               LET u == get_unique_id(call.items[i]) IN
               u \in RemovedByCleanup =>
                   /\ \E j \in DOMAIN ret.items : get_unique_id(ret.items[j]) = u
                   /\ u \in DOMAIN seen_items
                   /\ seen_items[u].first_seen = isoformat(pre.now)

\* an entry was removed by cleanup_old, and the filter_new after it returned
\* an item of its identity and stored it with a later first_seen
C20_Witness ==
    /\ Did("filter_new")
    /\ \E i \in DOMAIN call.items :
           LET u == get_unique_id(call.items[i]) IN
           /\ u \in RemovedByCleanup
           /\ ret.items = <<call.items[i]>>
           /\ prev.pre.seen[u].first_seen.k = "iso"
           /\ prev.pre.seen[u].first_seen.n < seen_items[u].first_seen.n

\* ---------------------------------------------------------------- C21
\* an entry that is no record, or whose first_seen is missing, no string, or
\* no ISO timestamp
Malformed(e) == e.shape # "object" \/ e.first_seen.k \notin {"iso", "iso_tz"}
\* every timestamp of the store is without zone, as mark_seen writes it
NoZone(m) == \A u \in DOMAIN m : m[u].shape = "object" => m[u].first_seen.k # "iso_tz"

\* C21: on a store holding well-formed entries and malformed ones,
\* cleanup_old(days) returns without raising, leaves the malformed entries
\* where they are, and removes every well-formed entry older than the cutoff
C21_CleanupSkipsMalformed ==
    (call.op = "cleanup_old" /\ ~pre.is_list /\ NoZone(pre.seen)) =>
        /\ exc = "none"
        /\ \A u \in DOMAIN pre.seen :
               Malformed(pre.seen[u]) => (u \in DOMAIN seen_items /\ seen_items[u] = pre.seen[u])
        /\ \A u \in Expired(pre.seen, call.days, pre.now) : u \notin DOMAIN seen_items

\* ---------------------------------------------------------------- C22
\* the fetched papers that are the first of their identity in the list and
\* whose identity the history did not hold when the run began
FirstUnseenPapers ==
    AtIndices(feed_papers,
              {i \in FirstOccurrences(feed_papers) :
                  ~is_seen(_load(file).seen, feed_papers[i])})

\* C22: the new papers of a run are the fetched papers that are the first of
\* their identity in the paper list and not in the history, as fetched:
\* no paper is left out or changed for the keywords its text matches
C22_PapersNotGatedByRelevance ==
    pc \in {"filtered", "cleaned"} => new_papers = FirstUnseenPapers

\* a paper matching no keyword is among the new papers
C22_Witness ==
    /\ pc = "filtered"
    /\ \E i \in DOMAIN new_papers :
           /\ new_papers[i].title = TitleCitizen
           /\ calculate_relevance(new_papers[i]).score < RSS_KEYWORD_THRESHOLD
           /\ new_papers[i].relevance_score = 0

\* ---------------------------------------------------------------- C23
\* C23: filter_new(items) leaves every entry that was in the store before
\* the call as it was, title and first_seen, for any batch; the entries it
\* adds are for identities of the batch that were not in the store
C23_FilterNewOnlyAdds ==
    call.op = "filter_new" =>
        /\ \A u \in DOMAIN pre.seen :
               u \in DOMAIN seen_items /\ seen_items[u] = pre.seen[u]
        /\ DOMAIN seen_items \ DOMAIN pre.seen \subseteq Ids(call.items)

\* a batch with an item whose identity is stored under another title, at a
\* later time than the entry's, and an item that is new
C23_Witness ==
    /\ Did("filter_new")
    /\ Len(call.items) = 2
    /\ Len(ret.items) = 1
    /\ \E i \in DOMAIN call.items :
           LET u == get_unique_id(call.items[i]) IN
           /\ u \in DOMAIN pre.seen
           /\ pre.seen[u].shape = "object"
           /\ pre.seen[u].title # call.items[i].title
           /\ pre.seen[u].first_seen # isoformat(pre.now)
           /\ seen_items[u] = pre.seen[u]

\* ---------------------------------------------------------------- C24
\* C24: in a run no identity is both among the new papers and among the new
\* articles: an article whose identity is that of a paper returned as new in
\* the same run is not returned as new
C24_NewPapersAndArticlesDisjoint ==
    pc \in {"filtered", "cleaned", "saved", "built"} =>
        /\ Ids(new_papers) \cap Ids(new_articles) = {}
        /\ \A i \in DOMAIN all_articles :
               get_unique_id(all_articles[i]) \in Ids(new_papers) =>
                   \A j \in DOMAIN new_articles : new_articles[j] # all_articles[i]

\* a paper and an article of one identity were fetched, the article passed
\* the relevance filter, and only the paper is new
C24_Witness ==
    /\ pc = "filtered"
    /\ Len(new_papers) = 1
    /\ Len(all_articles) = 1
    /\ get_unique_id(all_articles[1]) = get_unique_id(new_papers[1])
    /\ new_articles = <<>>

\* ---------------------------------------------------------------- C25
\* filter_new on what deduplicate_within_list makes of the batch of the last
\* call, from the store as it was before that call
FilterNewAfterPrePass ==
    LET d == deduplicate_within_list(pre.seen, call.items, pre.now)
    IN filter_new(d.seen, d.unique_items, pre.now)

\* C25: from the same store, filter_new(deduplicate_within_list(items))
\* returns the items filter_new(items) returns, in the same order, and
\* leaves the same identities stored, for every list of items
C25_PrePassChangesNothing ==
    (Did("filter_new") /\ ~pre.is_list) =>
        /\ FilterNewAfterPrePass.new_items = ret.items
        /\ DOMAIN FilterNewAfterPrePass.seen = DOMAIN seen_items

\* a batch of two different items of one identity, not in the store: the
\* first is returned, with or without the pre-pass
C25_Witness ==
    /\ Did("filter_new")
    /\ ~pre.is_list
    /\ Len(call.items) = 2
    /\ call.items[1] # call.items[2]
    /\ get_unique_id(call.items[1]) = get_unique_id(call.items[2])
    /\ deduplicate_within_list(pre.seen, call.items, pre.now).unique_items = <<call.items[1]>>
    /\ ret.items = <<call.items[1]>>

\* ---------------------------------------------------------------- C26
\* the store was built right after a save() that wrote the file
BuiltAfterSave ==
    /\ call.op = "__init__"
    /\ prev.call.op = "save" /\ prev.exc = "none" /\ prev.ret.flag

\* C26: a DeduplicationFilter built on the file a successful save() wrote
\* holds the mapping the saving store held, every identity with the same
\* title and first_seen, so that is_seen answers the same for every item
C26_StoreRoundTripsThroughFile ==
    BuiltAfterSave =>
        /\ exc = "none" /\ constructed
        /\ seen_is_list = pre.is_list
        /\ seen_items = pre.seen
        /\ seen_items = prev.pre.seen
        /\ \A item \in Items : is_seen(seen_items, item) = is_seen(prev.pre.seen, item)

\* a store that took in a new item, was saved, and was built again from the
\* file with that item in it
C26_Witness ==
    /\ BuiltAfterSave
    /\ ~seen_is_list
    /\ \E u \in DOMAIN seen_items :
           /\ u \notin DOMAIN prev.pre.file.items
           /\ seen_items[u].first_seen = isoformat(prev.pre.now)
    /\ file = FileOf("ok", seen_items)

====
